---- MODULE Spec2Model ----
(***************************************************************************)
(* bsd-socker: a BPF packet sniffer (src/src/bsdsocker.c).                 *)
(*                                                                         *)
(* The model follows main(): signal(SIGINT, signalHandler), the argument   *)
(* parse, initializeDevice (probe /dev/bpf0.., BIOCSETIF, BIOCIMMEDIATE,   *)
(* BIOCGBLEN), the sniff loop with its byte-level walk over the records    *)
(* of one read, deinitializeDevice, and the asynchronous SIGINT handler.   *)
(***************************************************************************)
EXTENDS Integers, Sequences, FiniteSets, TLC

\* ------------------------------------------------------------------ bounds

\* Number of /dev/bpfN candidates probed (common.h's MAX_BPF_DEVICES, scaled).
MAX_BPF_DEVICES == 2
\* The buffer length BIOCGBLEN reports.
BufSize == 96
\* Most records the kernel packs into one read.
MaxRecs == 2
\* Most SIGINT deliveries in one run.
MaxSignals == 2
MaxAlignArg == 40       \* alignment arguments 0..MaxAlignArg, low and high range

\* --------------------------------------------------- <net/bpf.h> constants

\* BPF_ALIGNMENT: the kernel pads each record to a multiple of this.
BPF_ALIGNMENT == 8
\* Byte offset and width of bh_caplen inside struct bpf_hdr.
CaplenOff == 8
CaplenSize == 4
\* Byte offset and width of bh_hdrlen inside struct bpf_hdr.
HdrlenOff == 16
HdrlenSize == 2
\* The header length the kernel writes into bh_hdrlen (SIZEOF_BPF_HDR).
SizeofBpfHdr == 18

\* The file descriptor open() hands out (0..2 are the standard streams).
FirstFd == 3

VARIABLES
    pc,             \* main thread's position
    args,           \* option letters getopt has not returned yet
    options,        \* the options singleton: which of -i / -o were given
    i,              \* initializeDevice: loop index
    bpf,            \* initializeDevice: local descriptor (-1 = open failed)
    errno,          \* C errno
    bpf_buff_size,  \* main's bpf_buff_size (0 until BIOCGBLEN fills it)
    descriptor,     \* main's bpf (-1 until initializeDevice stores it)
    bpf_buffer,     \* sniff: the buffer (NullBuf, or the memory malloc returned)
    read_bytes,     \* sniff: result of the last read
    ptr,            \* sniff: walk cursor, as an offset from bpf_buffer
    frame,          \* sniff: ethernet_frame, as an offset from bpf_buffer
    running,        \* static bool running
    disposition,    \* SIGINT disposition: "default" or "signalHandler"
    hstack,         \* active signalHandler invocations, innermost last
    sysv,           \* TRUE: signal() has System V semantics (reset on delivery)
    nsignals,       \* SIGINT deliveries so far
    kdev,           \* kernel: device index behind the open descriptor, -1 if none
    failure,        \* which fatal() ended the process, "none" otherwise
    failErrno,      \* the errno that fatal() reported
    exitStatus,     \* process exit status, -1 while running
    syslog,         \* history: system calls made, consecutive reads collapsed
    calls,          \* history: EthernetFrame_output calls of this iteration
    hdrHigh,        \* history: highest buffer offset read as header this walk
    recs,           \* history: the records the kernel packed into the last read
    readsAfterStop, \* history: reads issued while running was already false
    stores          \* history: assignments to running executed so far

vars == <<pc, args, options, i, bpf, errno, bpf_buff_size, descriptor,
          bpf_buffer, read_bytes, ptr, frame, running, disposition, hstack,
          sysv, nsignals, kdev, failure, failErrno, exitStatus, syslog, calls,
          hdrHigh, recs, readsAfterStop, stores>>

mainVars == <<pc, args, options, i, bpf, errno, bpf_buff_size, descriptor,
              bpf_buffer, read_bytes, ptr, frame, kdev, failure, failErrno,
              exitStatus, syslog, calls, hdrHigh, recs, readsAfterStop>>

sigVars == <<running, disposition, hstack, sysv, nsignals, stores>>

\* ------------------------------------------------------------ input sets

\* The command lines tried: the option letters getopt will return, in order.
ArgSeqs == {<<>>, <<"h">>, <<"?">>, <<"o">>, <<"i">>, <<"i", "h">>}
\* How open("/dev/bpfN") may fail: without permission, or, as the node is,
\* in use by another process (even N here) or not there at all (odd N).
OpenErrors(idx) == {"EACCES", IF idx % 2 = 0 THEN "EBUSY" ELSE "ENOENT"}
BufSizes == {BufSize}
CapLens == {10, 46}
RecKinds == {<<SizeofBpfHdr, c>> : c \in CapLens}
RecSeqs == UNION {[1..n -> RecKinds] : n \in 0..MaxRecs}
\* What a load from beyond the malloc'ed buffer yields: a byte, or a fault
\* (-1).  Every byte of the model is below 128, so that a four-byte field
\* stays below 2^31.
OobOutcomes == {0, 127, -1}
IsFault(oob) == oob < 0
\* How far into a record a short read may stop.
TruncOffsets == {6, 12, SizeofBpfHdr}
\* The call history keeps this many EthernetFrame_output calls per iteration.
MaxCalls == MaxRecs + 2

Terminal == {"exited", "fatal", "killed", "crashed"}
Alive == pc \notin Terminal

\* ---------------------------------------------------------- pure helpers

Max(a, b) == IF a >= b THEN a ELSE b

\* BPF_WORDALIGN(x) = ((x + (BPF_ALIGNMENT-1)) & ~(BPF_ALIGNMENT-1)): adding
\* the mask and clearing the low bits.
\* Mutation: rounds up to the next multiple even from a multiple.
BPF_WORDALIGN_NextMultiple(x) == (x + BPF_ALIGNMENT) - (x % BPF_ALIGNMENT)

\* ((x) + (BPF_ALIGNMENT - 1)) & ~(BPF_ALIGNMENT - 1), computed in size_t: the
\* argument is the 32-bit sum bh_hdrlen + bh_caplen and BPF_ALIGNMENT is 8
\* where long, and so size_t, has 64 bits, so the addition cannot wrap.
BPF_WORDALIGN(x) == (x + (BPF_ALIGNMENT - 1)) - ((x + (BPF_ALIGNMENT - 1)) % BPF_ALIGNMENT)

\* Byte k (0 = least significant) of the little-endian encoding of v.
LEByte(v, k) == (v \div (256 ^ k)) % 256

\* The integer a little-endian byte sequence encodes.
RECURSIVE LEValue(_)
LEValue(bytes) ==
    IF bytes = <<>> THEN 0 ELSE Head(bytes) + 256 * LEValue(Tail(bytes))

\* Kernel side (catchpacket): record j starts at the word-aligned end of
\* record j-1; a record is bh_hdrlen header bytes and bh_caplen payload bytes.
RecLen(r) == r[1] + r[2]

RECURSIVE RecStart(_, _)
RecStart(rs, j) ==
    IF j = 1 THEN 0 ELSE BPF_WORDALIGN(RecStart(rs, j - 1) + RecLen(rs[j - 1]))

RecEnd(rs, j) == RecStart(rs, j) + RecLen(rs[j])

\* End of the stored data, without and with the last record's padding.
DataEnd(rs) == IF rs = <<>> THEN 0 ELSE RecEnd(rs, Len(rs))
PaddedEnd(rs) == BPF_WORDALIGN(DataEnd(rs))

\* The byte the kernel holds at offset o of its store buffer.
KernelByte(rs, o) ==
    IF \E j \in 1..Len(rs) : RecStart(rs, j) <= o /\ o < RecEnd(rs, j)
    THEN LET j == CHOOSE k \in 1..Len(rs) : RecStart(rs, k) <= o /\ o < RecEnd(rs, k)
             rel == o - RecStart(rs, j)
         IN  IF rel >= CaplenOff /\ rel < CaplenOff + CaplenSize
                THEN LEByte(rs[j][2], rel - CaplenOff)
             ELSE IF rel >= HdrlenOff /\ rel < HdrlenOff + HdrlenSize
                THEN LEByte(rs[j][1], rel - HdrlenOff)
             ELSE IF rel < rs[j][1] THEN 1      \* bh_tstamp, bh_datalen
             ELSE 17                            \* frame bytes
    ELSE 0                                      \* padding between records

\* The lengths a read of this data may return: no data (0), an error (-1),
\* all of it with or without the final padding, or a short count that stops
\* TruncOffsets bytes into a record or into the space after the last one.
ReadSizes(rs, size) ==
    {-1, 0} \cup
    {n \in 1..size :
        \/ n = DataEnd(rs)
        \/ n = PaddedEnd(rs)
        \/ \E j \in 1..Len(rs), d \in TruncOffsets : n = RecStart(rs, j) + d
        \/ \E d \in TruncOffsets : n = PaddedEnd(rs) + d}

\* The buffer's memory is kept as what was written to it: a fill byte (from
\* malloc or memset) under the data of the reads since, newest first, each
\* read <<rs, n>> covering offsets 0..n-1 with the kernel's bytes.
NullBuf == [null |-> TRUE, size |-> 0, fill |-> 0, layers |-> <<>>]
FilledBuf(size, byte) == [null |-> FALSE, size |-> size, fill |-> byte, layers |-> <<>>]

RECURSIVE LayerByte(_, _, _)
LayerByte(layers, fill, o) ==
    IF layers = <<>> THEN fill
    ELSE IF o < Head(layers)[2] THEN KernelByte(Head(layers)[1], o)
    ELSE LayerByte(Tail(layers), fill, o)

\* The byte at offset o of the buffer, 0 <= o < size.
BufByte(buf, o) == LayerByte(buf.layers, buf.fill, o)

\* read(bpf, bpf_buffer, size) returning n: the first n bytes are replaced.
ReadInto(buf, rs, n) == [buf EXCEPT !.layers = <<<<rs, n>>>> \o @]

\* A load of `width` bytes at offset off of the buffer; bytes beyond the
\* allocation are whatever lies there (oob).
LoadBytes(buf, off, width, oob) ==
    [k \in 1..width |-> IF off + k <= buf.size THEN BufByte(buf, off + k - 1) ELSE oob]

LoadsBeyond(buf, off, width) == off + width > buf.size

\* bpf_packet->bh_hdrlen and bpf_packet->bh_caplen with bpf_packet at off.
bh_hdrlen(buf, off, oob) == LEValue(LoadBytes(buf, off + HdrlenOff, HdrlenSize, oob))
bh_caplen(buf, off, oob) == LEValue(LoadBytes(buf, off + CaplenOff, CaplenSize, oob))

\* bh_hdrlen + bh_caplen in C: u_short promoted, added to a 32-bit unsigned.
\* With every byte below 128 the sum is below 2^31 and cannot wrap.
HdrPlusCap(h, c) == h + c

\* fatal() of the logger: reports and terminates the process (status 1).
fatal(kind, err) ==
    /\ pc' = "fatal"
    /\ failure' = kind
    /\ failErrno' = err
    /\ exitStatus' = 1

\* The main thread runs only while no handler invocation is active.
MainAt(l) == pc = l /\ hstack = <<>>

Init ==
    /\ pc = "main_verify"
    /\ args \in ArgSeqs
    /\ options = [iface |-> FALSE, out |-> FALSE]
    /\ i = 0
    /\ bpf = -1
    /\ errno = "none"
    /\ bpf_buff_size = 0
    /\ descriptor = -1
    /\ bpf_buffer = NullBuf
    /\ read_bytes = 0
    /\ ptr = 0
    /\ frame = 0
    /\ running = TRUE
    /\ disposition = "default"
    /\ hstack = <<>>
    /\ sysv \in BOOLEAN
    /\ nsignals = 0
    /\ kdev = -1
    /\ failure = "none"
    /\ failErrno = "none"
    /\ exitStatus = -1
    /\ syslog = <<>>
    /\ calls = <<>>
    /\ hdrHigh = -1
    /\ recs = <<>>
    /\ readsAfterStop = 0
    /\ stores = 0

\* ------------------------------------------------------------------ main

\* verifyConfiguration(): "fatal if not" correct.
main_verify ==
    /\ MainAt("main_verify")
    /\ \E ok \in BOOLEAN :
          IF ok THEN /\ pc' = "main_signal"
                     /\ UNCHANGED <<failure, failErrno, exitStatus>>
                ELSE fatal("BadConfiguration", errno)
    /\ UNCHANGED <<args, options, i, bpf, errno, bpf_buff_size, descriptor,
                   bpf_buffer, read_bytes, ptr, frame, kdev, syslog, calls,
                   hdrHigh, recs, readsAfterStop>>
    /\ UNCHANGED sigVars

\* signal(SIGINT, signalHandler)
main_signal ==
    /\ MainAt("main_signal")
    /\ disposition' = "signalHandler"
    /\ pc' = "parse_getopt"
    /\ UNCHANGED <<args, options, i, bpf, errno, bpf_buff_size, descriptor,
                   bpf_buffer, read_bytes, ptr, frame, kdev, failure,
                   failErrno, exitStatus, syslog, calls, hdrHigh, recs,
                   readsAfterStop>>
    /\ UNCHANGED <<running, hstack, sysv, nsignals, stores>>

\* Mutation: case 'h' prints the usage but its exit(0) is missing, so that
\* control falls into case 'o'.
GetoptBranch_HelpFallsThrough(opt) ==
    CASE opt \in {"h", "o"} -> "setOutputFile"
      [] opt = "i" -> "setInterfaceName"
      [] OTHER -> "fatal"

\* switch (i) { case 'h': ... exit(0); case 'o': ...; case 'i': ...; default: fatal }
GetoptBranch(opt) ==
    CASE opt = "h" -> "exit"
      [] opt = "o" -> "setOutputFile"
      [] opt = "i" -> "setInterfaceName"
      [] OTHER -> "fatal"

\* One turn of parseArguments's getopt loop.
parse_getopt ==
    /\ MainAt("parse_getopt")
    /\ IF args = <<>>
          THEN /\ pc' = "parse_check"
               /\ UNCHANGED <<args, options, failure, failErrno, exitStatus>>
          ELSE /\ args' = Tail(args)
               /\ CASE GetoptBranch(Head(args)) = "exit" ->
                         /\ pc' = "exited"
                         /\ exitStatus' = 0
                         /\ UNCHANGED <<options, failure, failErrno>>
                    [] GetoptBranch(Head(args)) = "setOutputFile" ->
                         /\ options' = [options EXCEPT !.out = TRUE]
                         /\ pc' = "parse_getopt"
                         /\ UNCHANGED <<failure, failErrno, exitStatus>>
                    [] GetoptBranch(Head(args)) = "setInterfaceName" ->
                         /\ options' = [options EXCEPT !.iface = TRUE]
                         /\ pc' = "parse_getopt"
                         /\ UNCHANGED <<failure, failErrno, exitStatus>>
                    [] OTHER ->
                         /\ fatal("InvalidOption", errno)
                         /\ UNCHANGED options
    /\ UNCHANGED <<i, bpf, errno, bpf_buff_size, descriptor, bpf_buffer,
                   read_bytes, ptr, frame, kdev, syslog, calls, hdrHigh, recs,
                   readsAfterStop>>
    /\ UNCHANGED sigVars

\* Options_checkForRequiredOptions(): the interface name is required.
Options_checkForRequiredOptions ==
    IF options.iface
       THEN /\ pc' = "init_open"
            /\ UNCHANGED <<failure, failErrno, exitStatus>>
       ELSE fatal("MissingOption", errno)

parse_check ==
    /\ MainAt("parse_check")
    /\ Options_checkForRequiredOptions
    /\ UNCHANGED <<args, options, i, bpf, errno, bpf_buff_size, descriptor,
                   bpf_buffer, read_bytes, ptr, frame, kdev, syslog, calls,
                   hdrHigh, recs, readsAfterStop>>
    /\ UNCHANGED sigVars

\* ------------------------------------------------------ initializeDevice

\* Record a system call in the history; a run of reads is kept as one entry.
Logged(log, call, dev, res) ==
    IF call = "read" /\ log # <<>> /\ log[Len(log)][1] = "read"
       THEN log
       ELSE Append(log, <<call, dev, res>>)

\* Mutation: the loop bound is off by one.
ProbeMore_OffByOne(idx) == idx <= MAX_BPF_DEVICES

\* for (i = 0; i < MAX_BPF_DEVICES; i++)
ProbeMore(idx) == idx < MAX_BPF_DEVICES

\* Mutation: the break after a successful open is missing.
OpenBranch_NoBreak(fd, err) ==
    IF fd = -1 /\ err = "EACCES" THEN "fatal" ELSE "continue"

\* Mutation: a permission error is treated like any other failure.
OpenBranch_NoEacces(fd, err) ==
    IF fd # -1 THEN "break" ELSE "continue"

\* The if / else-if after open(): leave the loop, give up, or try the next.
OpenBranch(fd, err) ==
    IF fd # -1 THEN "break"
    ELSE IF err = "EACCES" THEN "fatal"
    ELSE "continue"

init_open ==
    /\ MainAt("init_open")
    /\ IF ProbeMore(i)
          THEN \E res \in {"ok"} \cup OpenErrors(i) :
                 LET fd == IF res = "ok" THEN FirstFd ELSE -1
                     br == OpenBranch(fd, res)
                 IN  /\ syslog' = Logged(syslog, "open", i, res)
                     /\ bpf' = fd
                     /\ kdev' = IF res = "ok" THEN i ELSE kdev
                     /\ errno' = IF res = "ok" THEN errno ELSE res
                     /\ CASE br = "break" ->
                               /\ pc' = "init_opened"
                               /\ UNCHANGED <<i, failure, failErrno, exitStatus>>
                          [] br = "fatal" ->
                               /\ fatal("PermissionDenied", res)
                               /\ UNCHANGED i
                          [] OTHER ->
                               /\ i' = i + 1
                               /\ pc' = "init_open"
                               /\ UNCHANGED <<failure, failErrno, exitStatus>>
          ELSE /\ pc' = "init_opened"
               /\ UNCHANGED <<i, bpf, kdev, errno, syslog, failure, failErrno,
                              exitStatus>>
    /\ UNCHANGED <<args, options, bpf_buff_size, descriptor, bpf_buffer,
                   read_bytes, ptr, frame, calls, hdrHigh, recs, readsAfterStop>>
    /\ UNCHANGED sigVars

\* if (bpf == -1) fatal("Failed to open a BPF device after %d tries ...")
init_opened ==
    /\ MainAt("init_opened")
    /\ IF bpf = -1
          THEN fatal("DeviceUnavailable", errno)
          ELSE /\ pc' = "init_bind"
               /\ UNCHANGED <<failure, failErrno, exitStatus>>
    /\ UNCHANGED <<args, options, i, bpf, errno, bpf_buff_size, descriptor,
                   bpf_buffer, read_bytes, ptr, frame, kdev, syslog, calls,
                   hdrHigh, recs, readsAfterStop>>
    /\ UNCHANGED sigVars

\* Mutation: the result of the ioctl is not looked at.
ConfigStep_Unchecked(call, ok, kind, next) ==
    /\ syslog' = Logged(syslog, call, kdev, IF ok THEN "ok" ELSE "fail")
    /\ pc' = next
    /\ errno' = IF ok THEN errno ELSE "ENXIO"
    /\ UNCHANGED <<failure, failErrno, exitStatus>>

\* One ioctl of the configuration sequence: on -1 fatal(kind), else go on.
ConfigStep(call, ok, kind, next) ==
    /\ syslog' = Logged(syslog, call, kdev, IF ok THEN "ok" ELSE "fail")
    /\ IF ok
          THEN /\ pc' = next
               /\ UNCHANGED <<errno, failure, failErrno, exitStatus>>
          ELSE /\ errno' = "ENXIO"
               /\ fatal(kind, "ENXIO")

\* ioctl(bpf, BIOCSETIF, &bound_if)
init_bind ==
    /\ MainAt("init_bind")
    /\ \E ok \in BOOLEAN : ConfigStep("bind", ok, "InterfaceBindFailed", "init_immediate")
    /\ UNCHANGED <<args, options, i, bpf, bpf_buff_size, descriptor,
                   bpf_buffer, read_bytes, ptr, frame, kdev, calls, hdrHigh,
                   recs, readsAfterStop>>
    /\ UNCHANGED sigVars

\* ioctl(bpf, BIOCIMMEDIATE, &buffer_int)
init_immediate ==
    /\ MainAt("init_immediate")
    /\ \E ok \in BOOLEAN : ConfigStep("immediate", ok, "ConfigurationFailed", "init_blen")
    /\ UNCHANGED <<args, options, i, bpf, bpf_buff_size, descriptor,
                   bpf_buffer, read_bytes, ptr, frame, kdev, calls, hdrHigh,
                   recs, readsAfterStop>>
    /\ UNCHANGED sigVars

\* ioctl(bpf, BIOCGBLEN, bpf_buff_size)
init_blen ==
    /\ MainAt("init_blen")
    /\ \E ok \in BOOLEAN :
          /\ ConfigStep("blen", ok, "ConfigurationFailed", "init_return")
          /\ IF ok THEN bpf_buff_size' \in BufSizes ELSE UNCHANGED bpf_buff_size
    /\ UNCHANGED <<args, options, i, bpf, descriptor, bpf_buffer, read_bytes,
                   ptr, frame, kdev, calls, hdrHigh, recs, readsAfterStop>>
    /\ UNCHANGED sigVars

\* *descriptor = bpf; and the return into main, which calls sniff.
init_return ==
    /\ MainAt("init_return")
    /\ descriptor' = bpf
    /\ pc' = "sniff_malloc"
    /\ UNCHANGED <<args, options, i, bpf, errno, bpf_buff_size, bpf_buffer,
                   read_bytes, ptr, frame, kdev, failure, failErrno,
                   exitStatus, syslog, calls, hdrHigh, recs, readsAfterStop>>
    /\ UNCHANGED sigVars

\* ----------------------------------------------------------------- sniff

\* struct bpf_hdr* bpf_buffer = malloc(bpf_buff_size * sizeof(OCTET));
\* the result is not checked, and fresh memory holds arbitrary bytes.
sniff_malloc ==
    /\ MainAt("sniff_malloc")
    /\ \E ok \in BOOLEAN :
          bpf_buffer' = IF ok THEN FilledBuf(bpf_buff_size, 127) ELSE NullBuf
    /\ read_bytes' = 0
    /\ pc' = "sniff_while"
    /\ UNCHANGED <<args, options, i, bpf, errno, bpf_buff_size, descriptor,
                   ptr, frame, kdev, failure, failErrno, exitStatus, syslog,
                   calls, hdrHigh, recs, readsAfterStop>>
    /\ UNCHANGED sigVars

\* Mutation: the loop body runs whatever the flag holds.
LoopTest_Unconditional(flag) == "sniff_memset"

\* while (running)
LoopTest(flag) == IF flag THEN "sniff_memset" ELSE "sniff_free"

sniff_while ==
    /\ MainAt("sniff_while")
    /\ pc' = LoopTest(running)
    /\ UNCHANGED <<args, options, i, bpf, errno, bpf_buff_size, descriptor,
                   bpf_buffer, read_bytes, ptr, frame, kdev, failure,
                   failErrno, exitStatus, syslog, calls, hdrHigh, recs,
                   readsAfterStop>>
    /\ UNCHANGED sigVars

\* memset(bpf_buffer, 0x00, bpf_buff_size)
\* Mutation: the buffer is reused without being cleared.
Memset_Skipped(buf, size) == buf

Memset(buf, size) ==
    IF size >= buf.size
       THEN FilledBuf(buf.size, 0)
       ELSE [buf EXCEPT !.layers = <<<< <<>>, size >>>> \o @]

\* A new iteration starts here: its call history starts empty.  memset on
\* the NULL of a failed malloc faults.
sniff_memset ==
    /\ MainAt("sniff_memset")
    /\ IF bpf_buffer.null
          THEN /\ pc' = "crashed"
               /\ UNCHANGED bpf_buffer
          ELSE /\ pc' = "sniff_read"
               /\ bpf_buffer' = Memset(bpf_buffer, bpf_buff_size)
    /\ calls' = <<>>
    /\ hdrHigh' = -1
    /\ UNCHANGED <<args, options, i, bpf, errno, bpf_buff_size, descriptor,
                   read_bytes, ptr, frame, kdev, failure, failErrno,
                   exitStatus, syslog, recs, readsAfterStop>>
    /\ UNCHANGED sigVars

\* Mutation: only a negative result skips the walk.
ReadBranch_ZeroWalks(n) == IF n >= 0 THEN "walk_while" ELSE "sniff_while"

\* if ((read_bytes = read(...)) > 0)
ReadBranch(n) == IF n > 0 THEN "walk_while" ELSE "sniff_while"

\* read(bpf, bpf_buffer, bpf_buff_size), and OCTET* ptr = (OCTET*) bpf_buffer
\* when the result is positive.
sniff_read ==
    /\ MainAt("sniff_read")
    /\ \E rs \in RecSeqs :
          /\ DataEnd(rs) <= bpf_buff_size
          /\ \E n \in ReadSizes(rs, bpf_buff_size) :
                /\ read_bytes' = n
                /\ pc' = ReadBranch(n)
                /\ IF n > 0
                      THEN /\ bpf_buffer' = ReadInto(bpf_buffer, rs, n)
                           /\ recs' = rs
                           /\ UNCHANGED errno
                      ELSE /\ recs' = <<>>
                           /\ errno' = IF n < 0 THEN "EAGAIN" ELSE errno
                           /\ UNCHANGED bpf_buffer
                /\ ptr' = IF ReadBranch(n) = "walk_while" THEN 0 ELSE ptr
    /\ syslog' = Logged(syslog, "read", kdev, "ok")
    /\ readsAfterStop' = IF running THEN readsAfterStop
                         ELSE IF readsAfterStop < 2 THEN readsAfterStop + 1
                         ELSE readsAfterStop
    /\ UNCHANGED <<args, options, i, bpf, bpf_buff_size, descriptor, frame,
                   kdev, failure, failErrno, exitStatus, calls, hdrHigh>>
    /\ UNCHANGED sigVars

\* Mutation: the walk also stops when the flag is false.
WalkTest_StopsOnFlag(cursor, n) ==
    IF running /\ cursor < n THEN "walk_body" ELSE "sniff_while"

\* while (ptr < (((OCTET*) bpf_buffer) + read_bytes))
WalkTest(cursor, n) == IF cursor < n THEN "walk_body" ELSE "sniff_while"

walk_while ==
    /\ MainAt("walk_while")
    /\ pc' = WalkTest(ptr, read_bytes)
    /\ UNCHANGED <<args, options, i, bpf, errno, bpf_buff_size, descriptor,
                   bpf_buffer, read_bytes, ptr, frame, kdev, failure,
                   failErrno, exitStatus, syslog, calls, hdrHigh, recs,
                   readsAfterStop>>
    /\ UNCHANGED sigVars

\* EthernetFrame_output(ethernet_frame, length): the call is recorded.
EthernetFrame_output(log, payload, length) ==
    IF Len(log) < MaxCalls THEN Append(log, <<payload, length>>) ELSE log

\* Mutation: the cursor advances by the unaligned record length.
Advance_Unaligned(cursor, h, c) == cursor + HdrPlusCap(h, c)

\* ptr += BPF_WORDALIGN(bpf_packet->bh_hdrlen + bpf_packet->bh_caplen)
Advance(cursor, h, c) == cursor + BPF_WORDALIGN(HdrPlusCap(h, c))

\* The body of the walk loop for the record at ptr:
\*   bpf_packet = (struct bpf_hdr*) ptr;
\*   ethernet_frame = (EthernetFrame*)((OCTET*) bpf_packet + bpf_packet->bh_hdrlen);
\*   EthernetFrame_output(ethernet_frame, bpf_packet->bh_caplen);
\*   ptr += BPF_WORDALIGN(bpf_packet->bh_hdrlen + bpf_packet->bh_caplen);
\* The header fields are loaded without a look at read_bytes or at the size
\* of the buffer.  o1 is what lies beyond the buffer before the call, o2
\* after it; a load beyond the buffer may also fault.
walk_body ==
    /\ MainAt("walk_body")
    /\ \E o1, o2 \in OobOutcomes :
          IF /\ LoadsBeyond(bpf_buffer, ptr + HdrlenOff, HdrlenSize)
                  \/ LoadsBeyond(bpf_buffer, ptr + CaplenOff, CaplenSize)
             /\ IsFault(o1) \/ IsFault(o2)
             THEN /\ pc' = "crashed"
                  /\ UNCHANGED <<frame, calls, ptr>>
             ELSE /\ pc' = "walk_while"
                  /\ frame' = ptr + bh_hdrlen(bpf_buffer, ptr, o1)
                  /\ calls' = EthernetFrame_output(calls,
                                  ptr + bh_hdrlen(bpf_buffer, ptr, o1),
                                  bh_caplen(bpf_buffer, ptr, o1))
                  /\ ptr' = Advance(ptr, bh_hdrlen(bpf_buffer, ptr, o2),
                                         bh_caplen(bpf_buffer, ptr, o2))
    /\ hdrHigh' = Max(hdrHigh, ptr + HdrlenOff + HdrlenSize - 1)
    /\ UNCHANGED <<args, options, i, bpf, errno, bpf_buff_size, descriptor,
                   bpf_buffer, read_bytes, kdev, failure, failErrno,
                   exitStatus, syslog, recs, readsAfterStop>>
    /\ UNCHANGED sigVars

\* Mutation: main returns without the call of deinitializeDevice.
MainAfterSniff_NoDeinit == "main_return"

\* main: sniff(bpf, bpf_buff_size); deinitializeDevice(bpf);
MainAfterSniff == "deinit_close"

\* free(bpf_buffer), and the return into main, which calls deinitializeDevice.
sniff_free ==
    /\ MainAt("sniff_free")
    /\ bpf_buffer' = NullBuf
    /\ pc' = MainAfterSniff
    /\ UNCHANGED <<args, options, i, bpf, errno, bpf_buff_size, descriptor,
                   read_bytes, ptr, frame, kdev, failure, failErrno,
                   exitStatus, syslog, calls, hdrHigh, recs, readsAfterStop>>
    /\ UNCHANGED sigVars

\* ------------------------------------------- deinitializeDevice, return 0

\* close(bpf)
deinit_close ==
    /\ MainAt("deinit_close")
    /\ syslog' = Logged(syslog, "close", kdev, "ok")
    /\ kdev' = -1
    /\ pc' = "main_return"
    /\ UNCHANGED <<args, options, i, bpf, errno, bpf_buff_size, descriptor,
                   bpf_buffer, read_bytes, ptr, frame, failure, failErrno,
                   exitStatus, calls, hdrHigh, recs, readsAfterStop>>
    /\ UNCHANGED sigVars

\* return 0;
main_return ==
    /\ MainAt("main_return")
    /\ pc' = "exited"
    /\ exitStatus' = 0
    /\ UNCHANGED <<args, options, i, bpf, errno, bpf_buff_size, descriptor,
                   bpf_buffer, read_bytes, ptr, frame, kdev, failure,
                   failErrno, syslog, calls, hdrHigh, recs, readsAfterStop>>
    /\ UNCHANGED sigVars

\* ---------------------------------------------------------------- SIGINT

\* The kernel delivers a SIGINT.  With the default disposition the process
\* is terminated.  Otherwise signalHandler starts on top of whatever was
\* running; System V signal() resets the disposition on delivery and leaves
\* the signal unblocked, BSD signal() keeps the handler and blocks the signal
\* while the handler runs.
Deliver ==
    /\ Alive
    /\ nsignals < MaxSignals
    /\ sysv \/ hstack = <<>>
    /\ nsignals' = nsignals + 1
    /\ IF disposition = "default"
          THEN /\ pc' = "killed"
               /\ exitStatus' = 130
               /\ UNCHANGED <<hstack, disposition>>
          ELSE /\ hstack' = Append(hstack, [hpc |-> "rearm", sig_num |-> "SIGINT"])
               /\ disposition' = IF sysv THEN "default" ELSE disposition
               /\ UNCHANGED <<pc, exitStatus>>
    /\ UNCHANGED <<args, options, i, bpf, errno, bpf_buff_size, descriptor,
                   bpf_buffer, read_bytes, ptr, frame, kdev, failure,
                   failErrno, syslog, calls, hdrHigh, recs, readsAfterStop>>
    /\ UNCHANGED <<running, sysv, stores>>

Top == hstack[Len(hstack)]
SetTop(f) == [hstack EXCEPT ![Len(hstack)] = f]
Pop == SubSeq(hstack, 1, Len(hstack) - 1)

\* Mutation: the handler does not install itself again.
Rearm_Missing(d) == d

\* signal(SIGINT, signalHandler) at the head of signalHandler
Rearm(d) == "signalHandler"

handler_signal ==
    /\ Alive
    /\ hstack # <<>>
    /\ Top.hpc = "rearm"
    /\ disposition' = Rearm(disposition)
    /\ hstack' = SetTop([Top EXCEPT !.hpc = "switch"])
    /\ UNCHANGED mainVars
    /\ UNCHANGED <<running, sysv, nsignals, stores>>

\* Mutation: the handler inverts the flag instead of clearing it.
HandlerSwitch_Toggle(sig_num, flag) == IF sig_num = "SIGINT" THEN ~flag ELSE flag

\* switch (sig_num) { case SIGINT: running = false; break; default: break; }
HandlerSwitch(sig_num, flag) == IF sig_num = "SIGINT" THEN FALSE ELSE flag

handler_switch ==
    /\ Alive
    /\ hstack # <<>>
    /\ Top.hpc = "switch"
    /\ running' = HandlerSwitch(Top.sig_num, running)
    /\ stores' = IF Top.sig_num = "SIGINT" THEN stores + 1 ELSE stores
    /\ hstack' = Pop
    /\ UNCHANGED mainVars
    /\ UNCHANGED <<disposition, sysv, nsignals>>

\* ------------------------------------------------------- specification

MainStep ==
    \/ main_verify
    \/ main_signal
    \/ parse_getopt
    \/ parse_check
    \/ init_open
    \/ init_opened
    \/ init_bind
    \/ init_immediate
    \/ init_blen
    \/ init_return
    \/ sniff_malloc
    \/ sniff_while
    \/ sniff_memset
    \/ sniff_read
    \/ walk_while
    \/ walk_body
    \/ sniff_free
    \/ deinit_close
    \/ main_return

HandlerStep == handler_signal \/ handler_switch

Next == MainStep \/ HandlerStep \/ Deliver

Spec == Init /\ [][Next]_vars

\* Runs of the command line "-i <interface>" on a system with BSD signal()
\* in which the processor keeps executing the program (main thread and
\* handler) for as long as it has a step to take.
FairInit == Init /\ args = <<"i">> /\ ~sysv
FairSpec == FairInit /\ [][Next]_vars /\ WF_vars(MainStep \/ HandlerStep)

\* ------------------------------------------------------------------------
\* BPF_WORDALIGN on its own: the advance of line 190 applied twice to an
\* arbitrary sum.  frame holds the argument, ptr the aligned value and
\* read_bytes the aligned value aligned again.
\* ------------------------------------------------------------------------

\* The largest argument whose bound x + BPF_ALIGNMENT the checker can hold.
TopAlignArg == 2^30 + (2^30 - 9)

AlignArgs == (0..MaxAlignArg) \cup {TopAlignArg - k : k \in 0..MaxAlignArg}

AlignInit ==
    /\ pc = "align_start"
    /\ frame \in AlignArgs
    /\ ptr = 0
    /\ read_bytes = 0
    /\ args = <<>>
    /\ options = [iface |-> TRUE, out |-> FALSE]
    /\ i = 0
    /\ bpf = -1
    /\ errno = "none"
    /\ bpf_buff_size = 0
    /\ descriptor = -1
    /\ bpf_buffer = NullBuf
    /\ running = TRUE
    /\ disposition = "default"
    /\ hstack = <<>>
    /\ sysv = FALSE
    /\ nsignals = 0
    /\ kdev = -1
    /\ failure = "none"
    /\ failErrno = "none"
    /\ exitStatus = -1
    /\ syslog = <<>>
    /\ calls = <<>>
    /\ hdrHigh = -1
    /\ recs = <<>>
    /\ readsAfterStop = 0
    /\ stores = 0

alignUnchanged == <<args, options, i, bpf, errno, bpf_buff_size, descriptor,
                    bpf_buffer, kdev, failure, failErrno, exitStatus, syslog,
                    calls, hdrHigh, recs, readsAfterStop>>

\* ptr = BPF_WORDALIGN(x)
align_once ==
    /\ pc = "align_start"
    /\ ptr' = BPF_WORDALIGN(frame)
    /\ pc' = "align_once"
    /\ UNCHANGED <<frame, read_bytes>>
    /\ UNCHANGED alignUnchanged
    /\ UNCHANGED sigVars

\* read_bytes = BPF_WORDALIGN(BPF_WORDALIGN(x))
align_twice ==
    /\ pc = "align_once"
    /\ read_bytes' = BPF_WORDALIGN(ptr)
    /\ pc' = "align_twice"
    /\ UNCHANGED <<frame, ptr>>
    /\ UNCHANGED alignUnchanged
    /\ UNCHANGED sigVars

AlignNext == align_once \/ align_twice

AlignSpec == AlignInit /\ [][AlignNext]_vars

TypeOK ==
    /\ pc \in STRING
    /\ running \in BOOLEAN
    /\ nsignals \in 0..MaxSignals

\* ==================================================================
\* Properties
\* ==================================================================

SniffLoop == {"sniff_while", "sniff_memset", "sniff_read", "walk_while", "walk_body"}
InWalk == pc \in {"walk_while", "walk_body"}

\* The main thread executes the statement at label l (the step is not a
\* signal delivery and not a fault of the process).
Leaves(l) == pc = l /\ pc' \notin {l, "killed", "crashed"}

\* C1: Shutdown.  Once running is false while sniff is in its loop, sniff
\* leaves the loop (no read follows the loop test that sees the flag, so at
\* most the one read of the iteration in progress is issued with the flag
\* already false), and it does so for every buffer content read returns.
C1_Shutdown ==
    /\ [](readsAfterStop <= 1)
    /\ (pc \in SniffLoop /\ ~running) ~> (pc \notin SniffLoop)

\* C2: Truncation safety.  During the walk of a read result of read_bytes
\* bytes no header byte is loaded from an offset >= read_bytes.
C2_TruncationSafety == InWalk => hdrHigh < read_bytes

\* The calls a walk over the records rs has to make, in buffer order.
ExpectedCalls(rs) == [j \in 1..Len(rs) |-> <<RecStart(rs, j) + rs[j][1], rs[j][2]>>]

\* The read returned whole records only, the last one padded.
WellFormedRead == recs # <<>> /\ read_bytes = PaddedEnd(recs)

\* C3: Buffer walk correctness.  Walking k well-formed records whose aligned
\* lengths sum to read_bytes, the calls made so far are the first calls of
\* ExpectedCalls (payload offset start + header length, captured length), the
\* cursor is the start of the next record, and when the walk has ended there
\* were exactly k calls and the cursor equals read_bytes.
C3_WalkCorrect ==
    (WellFormedRead /\ pc \in {"walk_while", "walk_body", "sniff_while"}) =>
        /\ Len(calls) <= Len(recs)
        /\ calls = SubSeq(ExpectedCalls(recs), 1, Len(calls))
        /\ ptr = IF Len(calls) = Len(recs) THEN read_bytes
                 ELSE RecStart(recs, Len(calls) + 1)
        /\ pc = "sniff_while" => (Len(calls) = Len(recs) /\ ptr = read_bytes)

\* The example of the specification: records (18,46) and (18,10), 96 bytes.
C3_Witness ==
    /\ pc = "sniff_while"
    /\ recs = <<<<18, 46>>, <<18, 10>>>>
    /\ read_bytes = 96
    /\ calls = <<<<18, 46>>, <<82, 10>>>>
    /\ ptr = 96

\* C4: Walk bounds.  During a walk, cursor <= bytesRead <= bufferSize.
C4_WalkBounds == InWalk => (ptr <= read_bytes /\ read_bytes <= bpf_buff_size)

\* ------------------------------------------------------- device probing

IsOpen(e) == e[1] = "open"
Opens == SelectSeq(syslog, IsOpen)
NotOpen(e) == e[1] # "open"
AfterOpens == SelectSeq(syslog, NotOpen)

\* C5: Device probing order.  The open attempts are at indices 0, 1, 2, ..
\* in that order and nothing is opened after a success; when the open at
\* index k succeeded, the attempts were exactly 0..k, and every later call
\* (bind, configuration, read, close) and the descriptor handed to main are
\* for the device at index k.
C5_ProbeOrder ==
    /\ \A j \in 1..Len(Opens) : Opens[j][2] = j - 1
    /\ \A j \in 1..Len(Opens) - 1 : Opens[j][3] # "ok"
    /\ Len(Opens) <= MAX_BPF_DEVICES
    /\ SubSeq(syslog, 1, Len(Opens)) = Opens
    /\ (Opens # <<>> /\ Opens[Len(Opens)][3] = "ok") =>
          LET k == Len(Opens) - 1
          IN  /\ \A j \in 1..Len(AfterOpens) : AfterOpens[j][2] = k
              /\ kdev \in {k, -1}
              /\ bpf = FirstFd
              /\ descriptor \in {-1, bpf}
              /\ pc \in SniffLoop => (descriptor = bpf /\ kdev = k)

\* Only the last of the probed indices opens; it is bound and handed to sniff.
C5_Witness ==
    /\ pc = "sniff_while"
    /\ Len(Opens) = MAX_BPF_DEVICES
    /\ Opens[Len(Opens)] = <<"open", MAX_BPF_DEVICES - 1, "ok">>
    /\ kdev = MAX_BPF_DEVICES - 1
    /\ descriptor = FirstFd

\* C6: Permission short-circuit.  An open that failed with EACCES is the
\* last system call of the run: the process has ended with PermissionDenied,
\* nothing was opened, bound, configured or read after it.
C6_PermissionShortCircuit ==
    \A j \in 1..Len(syslog) :
        (IsOpen(syslog[j]) /\ syslog[j][3] = "EACCES") =>
            /\ j = Len(syslog)
            /\ pc = "fatal"
            /\ failure = "PermissionDenied"
            /\ descriptor = -1
            /\ bpf_buffer.null

\* The permission error comes at a later index than the first.
C6_Witness ==
    /\ pc = "fatal"
    /\ failure = "PermissionDenied"
    /\ Len(syslog) = MAX_BPF_DEVICES
    /\ syslog[Len(syslog)] = <<"open", MAX_BPF_DEVICES - 1, "EACCES">>

\* Every call so far is an open that failed with a non-permission error.
OnlyFailedOpens ==
    \A j \in 1..Len(syslog) : IsOpen(syslog[j]) /\ syslog[j][3] \notin {"ok", "EACCES"}

\* C7: Device exhaustion.  While every open fails with a non-permission
\* error at most MAX_BPF_DEVICES attempts are made; the process then fails
\* with DeviceUnavailable, which is reported exactly after MAX_BPF_DEVICES
\* failed attempts, with the errno of the last one, and without any bind,
\* configuration step or read.
C7_Exhaustion ==
    /\ OnlyFailedOpens =>
          /\ Len(syslog) <= MAX_BPF_DEVICES
          /\ pc \in {"main_verify", "main_signal", "parse_getopt", "parse_check",
                     "init_open", "init_opened", "fatal", "exited", "killed"}
          /\ (pc = "init_opened" => Len(syslog) = MAX_BPF_DEVICES)
          /\ (pc = "fatal" /\ syslog # <<>>) => failure = "DeviceUnavailable"
    /\ failure = "DeviceUnavailable" =>
          /\ OnlyFailedOpens
          /\ Len(syslog) = MAX_BPF_DEVICES
          /\ \A j \in 1..Len(syslog) : syslog[j][2] = j - 1
          /\ failErrno = syslog[Len(syslog)][3]
          /\ descriptor = -1
          /\ bpf_buffer.null

C7_Witness ==
    /\ pc = "fatal"
    /\ failure = "DeviceUnavailable"
    /\ Len(syslog) = MAX_BPF_DEVICES
    /\ failErrno = syslog[MAX_BPF_DEVICES][3]

\* C8: No partial configuration.  After the opens the calls are bind,
\* immediate, blen, read, in that order, each made only after the ones
\* before it succeeded; a failed bind ends the process with
\* InterfaceBindFailed and a failed immediate or blen with
\* ConfigurationFailed, as the last call of the run.
ConfigOrder == <<"bind", "immediate", "blen">>

C8_NoPartialConfiguration ==
    /\ Len(AfterOpens) <= Len(ConfigOrder) + 2
    /\ \A j \in 1..Len(AfterOpens) :
          /\ j <= Len(ConfigOrder) => AfterOpens[j][1] = ConfigOrder[j]
          /\ j > Len(ConfigOrder) => AfterOpens[j][1] \in {"read", "close"}
          /\ (j > 1 /\ AfterOpens[j][1] = "read") => AfterOpens[j - 1][1] = "blen"
          /\ AfterOpens[j][3] # "ok" =>
                /\ j = Len(AfterOpens)
                /\ pc = "fatal"
                /\ failure = IF AfterOpens[j][1] = "bind"
                                THEN "InterfaceBindFailed"
                                ELSE "ConfigurationFailed"
    /\ pc \in SniffLoop =>
          /\ Len(AfterOpens) >= 3
          /\ Opens # <<>> /\ Opens[Len(Opens)][3] = "ok"

\* A read was made (after all three steps), and each failure is reached.
C8_Witness ==
    /\ Len(AfterOpens) = 4
    /\ AfterOpens[4][1] = "read"
    /\ pc = "walk_body"

\* C9: No-data tolerance.  A read that returns 0 or less leads straight to
\* the loop test, with no EthernetFrame_output call in that iteration; the
\* loop test with running true leads to the memset and that to the read.
C9_NoDataTolerance ==
    [][ /\ (Leaves("sniff_read") /\ read_bytes' <= 0) =>
              (pc' = "sniff_while" /\ calls' = <<>>)
        /\ (Leaves("sniff_while") /\ running) => pc' = "sniff_memset"
        /\ Leaves("sniff_memset") => pc' = "sniff_read"
        /\ (pc = "sniff_while" /\ read_bytes <= 0) => calls = <<>>
      ]_vars

\* The loop is back at the read after a read that returned -1.
C9_Witness == pc = "sniff_read" /\ read_bytes = -1 /\ running /\ hstack = <<>>

\* C10: Re-arming.  Whenever an invocation of signalHandler completes,
\* running is false and signalHandler is the installed handler, also where
\* delivery resets the disposition; so a delivery that follows a completed
\* invocation starts the handler again instead of ending the process.
C10_Rearming ==
    [][ /\ Len(hstack') < Len(hstack) =>
              (running' = FALSE /\ disposition' = "signalHandler")
        /\ (nsignals' = nsignals + 1 /\ nsignals >= 1 /\ hstack = <<>>) =>
              (pc' # "killed" /\ Len(hstack') = 1 /\ hstack'[1].hpc = "rearm")
      ]_vars

\* The second delivery has started the handler after the first invocation
\* completed, on a system that resets the disposition on delivery.
C10_Witness ==
    /\ sysv
    /\ nsignals = 2
    /\ Len(hstack) = 1
    /\ hstack[1].hpc = "rearm"
    /\ ~running
    /\ Alive

IsClose(e) == e[1] = "close"
Closes == SelectSeq(syslog, IsClose)

\* C11: Device release.  Once initializeDevice has returned a descriptor and
\* the capture loop has exited, the device is closed exactly once, the close
\* is the last system call (so it follows the last read), and the process
\* exits with status 0.  Before the loop exits the device is not closed.
C11_DeviceRelease ==
    /\ Len(Closes) <= 1
    /\ \A j \in 1..Len(syslog) : IsClose(syslog[j]) => j = Len(syslog)
    /\ (pc \in SniffLoop \cup {"sniff_malloc", "sniff_free", "deinit_close"}) =>
          (Closes = <<>> /\ kdev >= 0)
    /\ (pc \in {"main_return", "exited"} /\ descriptor # -1) =>
          (Len(Closes) = 1 /\ kdev = -1)
    /\ (pc = "exited" /\ descriptor # -1) => exitStatus = 0

\* The process has exited after a read, with the close behind the read.
C11_Witness ==
    /\ pc = "exited"
    /\ exitStatus = 0
    /\ descriptor # -1
    /\ Len(syslog) >= 2
    /\ syslog[Len(syslog)][1] = "close"
    /\ syslog[Len(syslog) - 1][1] = "read"

\* C12: wordAlign.  For every non-negative argument x the aligned value is a
\* multiple of the alignment unit with x <= wordAlign(x) < x + unit, and
\* aligning it again changes nothing; with the unit 8, 18 goes to 24 and 24
\* stays 24.
C12_WordAlign ==
    /\ (pc \in {"align_once", "align_twice"}) =>
          /\ frame <= ptr
          /\ ptr < frame + BPF_ALIGNMENT
          /\ ptr % BPF_ALIGNMENT = 0
          /\ (BPF_ALIGNMENT = 8 /\ frame \in {18, 24}) => ptr = 24
    /\ (pc = "align_twice") => read_bytes = ptr

\* 18 has been aligned to 24 and 24 aligned again.
C12_Witness == pc = "align_twice" /\ frame = 18 /\ ptr = 24 /\ read_bytes = 24

\* C13: Command-line gate.  The first open is attempted only after getopt
\* has consumed every argument and the interface name is set, that is after
\* required-option validation passed; a help flag ends the process with
\* status 0 and no open attempted; without an interface name validation
\* ends the process with no open attempted.
C13_CommandLineGate ==
    [][ /\ (syslog = <<>> /\ syslog' # <<>>) =>
              (pc = "init_open" /\ args = <<>> /\ options.iface)
        /\ (args' # args /\ Head(args) = "h") =>
              (pc' = "exited" /\ exitStatus' = 0 /\ syslog' = <<>>)
        /\ (Leaves("parse_check") /\ ~options.iface) =>
              (pc' = "fatal" /\ failure' = "MissingOption" /\ syslog' = <<>>)
        /\ (pc' \in {"init_open", "init_opened"} /\ pc \notin {"init_open", "init_opened"}) =>
              (pc = "parse_check" /\ options.iface)
      ]_vars

\* A help flag after the interface option has ended the process before any
\* open.
C13_Witness ==
    /\ pc = "exited"
    /\ exitStatus = 0
    /\ options.iface
    /\ descriptor = -1
    /\ syslog = <<>>

\* C14: Dispatched payloads stay inside the read result.  For every call of
\* EthernetFrame_output made during the walk of a read of n bytes, whatever
\* the header fields hold, payload start + captured length <= n.
C14_PayloadInsideRead ==
    \A j \in 1..Len(calls) : calls[j][1] + calls[j][2] <= read_bytes

InSwitch == hstack # <<>> /\ Top.hpc = "switch"

\* C15 as stated: over any run, also one with several interrupt deliveries,
\* running is set false exactly once, so the assignment running = false is
\* executed at most once.
C15_SetFalseOnce == stores <= 1

\* C15, amended: running is true until the handler's first assignment; it is
\* assigned only by signalHandler, which assigns false once in every
\* invocation, so once false it is never true again; it is read only by the
\* loop test, whose branch follows it, and never inside the walk, whose test
\* follows the cursor alone.
C15_RunningFlag ==
    [][ /\ (stores = 0) => running
        /\ (running' # running) => (InSwitch /\ running /\ ~running')
        /\ (stores' # stores) => (InSwitch /\ stores' = stores + 1 /\ ~running')
        /\ (Len(hstack') < Len(hstack)) => stores' = stores + 1
        /\ (~running) => ~running'
        /\ Leaves("sniff_while") =>
              pc' = (IF running THEN "sniff_memset" ELSE "sniff_free")
        /\ Leaves("walk_while") =>
              pc' = (IF ptr < read_bytes THEN "walk_body" ELSE "sniff_while")
      ]_vars

\* Two invocations of the handler have completed, each with its assignment.
C15_Witness == stores = 2 /\ ~running /\ hstack = <<>> /\ nsignals = 2 /\ Alive

ZeroFrom(buf, from) == \A o \in from..(buf.size - 1) : BufByte(buf, o) = 0

\* C16: Buffer clearing.  When the read is issued the whole buffer is zero,
\* the memset having run after the loop test and before the read; so during
\* the walk of a read of n bytes the buffer holds that read's data alone and
\* every byte from offset n to the end of the buffer is zero.
C16_BufferClearing ==
    /\ (pc = "sniff_read") =>
          (~bpf_buffer.null /\ bpf_buffer.size = bpf_buff_size /\ ZeroFrom(bpf_buffer, 0))
    /\ InWalk =>
          /\ bpf_buffer.layers = <<<<recs, read_bytes>>>>
          /\ bpf_buffer.fill = 0
          /\ ZeroFrom(bpf_buffer, read_bytes)

\* A walk of a read shorter than the buffer is under way, the bytes behind
\* the data being the memset's zeroes and not what malloc left there.
C16_Witness ==
    /\ pc = "walk_body"
    /\ read_bytes > 0
    /\ read_bytes < bpf_buffer.size
    /\ BufByte(bpf_buffer, read_bytes - 1) # 0
    /\ BufByte(bpf_buffer, read_bytes) = 0
    /\ BufByte(bpf_buffer, bpf_buffer.size - 1) = 0

\* C17: Walk termination.  For every read of n > 0 bytes and every buffer
\* content, every step of the walk moves the cursor strictly forward, so
\* the walk of a read ends.
C17_WalkTermination ==
    [][ (pc = "walk_body" /\ pc' = "walk_while") => ptr' > ptr ]_vars

IsRead(e) == e[1] = "read"
NoReads == SelectSeq(syslog, IsRead) = <<>>

\* sniff has been entered, or has just returned, with running false and
\* nothing read.
EarlyStop ==
    /\ ~running
    /\ NoReads
    /\ pc \in {"sniff_malloc", "sniff_while", "sniff_free", "deinit_close", "main_return"}

AfterEarlyStop(l) ==
    CASE l = "sniff_malloc" -> "sniff_while"
      [] l = "sniff_while" -> "sniff_free"
      [] l = "sniff_free" -> "deinit_close"
      [] l = "deinit_close" -> "main_return"
      [] OTHER -> "exited"

\* C18: Interrupt before capture.  signalHandler is installed when device
\* initialization starts; and when sniff is entered with running already
\* false, the program goes from the loop test straight to free, close and
\* return: no read, no EthernetFrame_output call, the device closed, exit
\* status 0.
C18_InterruptBeforeCapture ==
    [][ /\ (pc \in {"parse_getopt", "parse_check", "init_open"} /\ hstack = <<>>) =>
              disposition = "signalHandler"
        /\ (pc = "sniff_malloc") => (NoReads /\ calls = <<>>)
        /\ EarlyStop =>
              /\ NoReads'
              /\ calls' = calls
              /\ ~running'
              /\ Leaves(pc) => pc' = AfterEarlyStop(pc)
              /\ Leaves("deinit_close") =>
                    (syslog' = Append(syslog, <<"close", kdev, "ok">>) /\ kdev' = -1)
              /\ Leaves("main_return") => exitStatus' = 0
      ]_vars

\* The process has exited with status 0 after an interrupt that came before
\* the first loop test: the device was closed without a read.
C18_Witness ==
    /\ pc = "exited"
    /\ exitStatus = 0
    /\ descriptor # -1
    /\ ~running
    /\ NoReads
    /\ calls = <<>>
    /\ Closes # <<>>

\* The last read returned whole records only, the last one padded or not.
WholeRead == recs # <<>> /\ read_bytes \in {DataEnd(recs), PaddedEnd(recs)}

\* The records of the last read that lie in it whole, header and frame.
WholeRecs == {j \in 1..Len(recs) : RecStart(recs, j) + RecLen(recs[j]) <= read_bytes}

\* C19: No frame loss on shutdown.  When running has become false after a
\* read of n > 0 bytes, the walk of that read is not cut short: the calls of
\* EthernetFrame_output made so far begin with those of the records that lie
\* whole in the read, one call each and in order, and none of these is
\* missing once the walk is over, from then until the process has exited.
C19_NoFrameLoss ==
    (~running /\ recs # <<>>) =>
        /\ \A j \in WholeRecs : j <= Len(calls) => calls[j] = ExpectedCalls(recs)[j]
        /\ (pc \in {"sniff_while", "sniff_free", "deinit_close", "main_return", "exited"}) =>
              /\ \A j \in WholeRecs : j <= Len(calls)
              /\ WholeRead => calls = ExpectedCalls(recs)

\* sniff is returning after an interrupt that came after the last read was
\* issued; both records of that read were dispatched.
C19_Witness ==
    /\ pc = "sniff_free"
    /\ ~running
    /\ stores = 1
    /\ readsAfterStop = 0
    /\ WholeRead
    /\ Len(recs) = 2
    /\ calls = ExpectedCalls(recs)

====
